---- MODULE Spec2Model ----
(***************************************************************************)
(* migration-check: a SynVisitor scans the declarations of a source tree,  *)
(* fingerprints every struct/enum outside src/rpc, records the dependency  *)
(* identifiers of every declaration, validates the serde_as annotation of  *)
(* the integer fields under src/rpc, and report_and_dump compares the      *)
(* closure of the KeyValue payload types against the stored baseline.      *)
(*                                                                         *)
(* Text is modelled as a sequence of atoms (tokens, or pieces of a token   *)
(* where the code looks inside it); a map is a function whose DOMAIN is    *)
(* the set of its keys.                                                    *)
(***************************************************************************)
EXTENDS Integers, Sequences, FiniteSets, TLC

VARIABLES
    type_fingerprint,   \* SynVisitor.type_fingerprint : name -> digest
    type_deps,          \* SynVisitor.type_deps        : name -> Vec of names
    store_types,        \* SynVisitor.store_types      : Vec of names
    has_error,          \* SynVisitor.has_error
    baseline,           \* the content of the output file (name -> digest)
    update,             \* the -u flag handed to report_and_dump
    old_finger,         \* report_and_dump: the baseline as read
    new_finger,         \* construct_finger_print: dump_fingers
    visited,            \* construct_finger_print: visited
    root_idx,           \* position of the loop over store_types
    cstack,             \* call stack of collect_fingerprints
    todo,               \* names of old_finger not yet iterated
    failed,             \* report_and_dump: failed
    target,             \* try_find_type_chain: target_type
    result,             \* try_find_type_chain: result
    fstack,             \* call stack of recurisve_find_type
    exit_status,        \* how the process ended
    pc,                 \* where the run is
    log,                \* history: the last two declaration visits
    expanded,           \* history: how often collect_fingerprints expanded a name
    declared_deps,      \* history: dependency identifiers declared per name
    nvisits,            \* history: number of declarations visited
    baseline0           \* history: the content of the output file before the run

vars == <<type_fingerprint, type_deps, store_types, has_error, baseline, update,
          old_finger, new_finger, visited, root_idx, cstack, todo, failed,
          target, result, fstack, exit_status, pc, log, expanded,
          declared_deps, nvisits, baseline0>>

scanVars == <<type_fingerprint, type_deps, store_types, has_error, log,
              declared_deps, nvisits>>
closureVars == <<new_finger, visited, root_idx, cstack, expanded>>
chainVars == <<target, result, fstack>>

----------------------------------------------------------------------------
(* Bounds of the model. *)

MaxVisits == 4
MaxFields == 2

----------------------------------------------------------------------------
(* Maps and sequences. *)

EmptyMap == [x \in {} |-> x]

Put(m, k, v) == [x \in (DOMAIN m) \cup {k} |-> IF x = k THEN v ELSE m[x]]

Range(s) == {s[i] : i \in DOMAIN s}

Last(s) == s[Len(s)]

RECURSIVE Concat(_)
Concat(ss) == IF ss = <<>> THEN <<>> ELSE Head(ss) \o Concat(Tail(ss))

\* str::contains: `needle` occurs in `text` as a contiguous run.
Contains(text, needle) ==
    \E i \in 0..(Len(text) - Len(needle)) :
        \A j \in 1..Len(needle) : text[i + j] = needle[j]

NoName == "<none>"
NoIdent == "<unnamed>"
NoFinger == <<>>

----------------------------------------------------------------------------
(* The parsed declarations handed to the visitor (syn's Item, Field, Type). *)

\* Tokens of a type expression that are not TokenTree::Ident: punctuation
\* and delimited groups.
NonIdent == {"<", ">", "::", ",", "[u8 ; 32]"}

PathTy(toks) == [path |-> TRUE, toks |-> toks]
OtherTy(toks) == [path |-> FALSE, toks |-> toks]

Attr(path, tokens) == [path |-> path, tokens |-> tokens]
Field(ident, ty, attrs) == [ident |-> ident, ty |-> ty, attrs |-> attrs]
Variant(ident, fields) == [ident |-> ident, fields |-> fields]

ItemStruct(ident, named, fields) ==
    [kind |-> "struct", ident |-> ident, named |-> named, fields |-> fields,
     variants |-> <<>>, ty |-> OtherTy(<<>>)]
ItemEnum(ident, variants) ==
    [kind |-> "enum", ident |-> ident, named |-> FALSE, fields |-> <<>>,
     variants |-> variants, ty |-> OtherTy(<<>>)]
ItemType(ident, ty) ==
    [kind |-> "type", ident |-> ident, named |-> FALSE, fields |-> <<>>,
     variants |-> <<>>, ty |-> ty]

\* String's Ord on the identifiers of the model: bytewise, so upper case
\* sorts before lower case.
Rank(s) ==
    CASE s = "A" -> 1
      [] s = "B" -> 2
      [] s = "HashMap" -> 3
      [] s = "KeyValue" -> 4
      [] s = "Option" -> 5
      [] s = "P" -> 6
      [] s = "String" -> 7
      [] s = "Vec" -> 8
      [] s = "X" -> 9
      [] s = "u32" -> 10
      [] s = "u64" -> 11
      [] s = "u8" -> 12

----------------------------------------------------------------------------
(* calc_dep_types, should_skip_field, check_rpc_field. *)

calc_dep_types(ty) ==
    IF ty.path THEN SelectSeq(ty.toks, LAMBDA t : t \notin NonIdent) ELSE <<>>

should_skip_field(field) ==
    \E i \in DOMAIN field.attrs :
        /\ field.attrs[i].path = "serde"
        /\ Contains(field.attrs[i].tokens, <<"skip">>)

UIntKinds == {"u8", "u16", "u32", "u64", "u128"}

\* str::to_uppercase on an integer kind.
to_uppercase(s) ==
    CASE s = "u8" -> "U8"
      [] s = "u16" -> "U16"
      [] s = "u32" -> "U32"
      [] s = "u64" -> "U64"
      [] s = "u128" -> "U128"

\* attr_str.split('=').nth(1): the text between the first and the second '='.
RECURSIVE UpToEq(_)
UpToEq(text) ==
    IF text = <<>> \/ Head(text) = "=" THEN <<>>
    ELSE <<Head(text)>> \o UpToEq(Tail(text))

RECURSIVE AfterEq(_)
AfterEq(text) ==
    IF text = <<>> THEN <<>>
    ELSE IF Head(text) = "=" THEN Tail(text) ELSE AfterEq(Tail(text))

HasSecondPart(text) == \E i \in DOMAIN text : text[i] = "="

SplitEqNth1(text) == UpToEq(AfterEq(text))

expected_serde_as_value(dep_types) ==
    LET last == Last(dep_types)
        is_option == Len(dep_types) = 2 /\ dep_types[1] = "Option"
        expected_hex == <<to_uppercase(last), "Hex">>
    IN  IF is_option THEN <<"Option", "<">> \o expected_hex \o <<">">>
        ELSE expected_hex

\* The outcome of check_rpc_field on one field: "ok" (nothing reported),
\* "error" (a diagnostic and has_error = true) or "panic" (an unwrap of None).
check_rpc_field(field) ==
    LET dep_types == calc_dep_types(field.ty)
    IN  IF Len(dep_types) > 2 THEN "ok"
        ELSE IF dep_types = <<>> THEN "panic"
        ELSE IF Last(dep_types) \notin UIntKinds THEN "ok"
        ELSE IF \E i \in DOMAIN field.attrs :
                    /\ field.attrs[i].path = "serde_as"
                    /\ HasSecondPart(field.attrs[i].tokens)
                    /\ Contains(SplitEqNth1(field.attrs[i].tokens),
                                expected_serde_as_value(dep_types))
             THEN "ok"
        ELSE IF field.ident = NoIdent THEN "panic"
        ELSE "error"

\* The loop over the fields of a declaration under src/rpc: skip-marked
\* fields are passed over, the first panic ends the scan.
RECURSIVE RpcFields(_, _)
RpcFields(fields, err) ==
    IF fields = <<>> THEN [err |-> err, panic |-> FALSE]
    ELSE IF should_skip_field(Head(fields)) THEN RpcFields(Tail(fields), err)
    ELSE LET r == check_rpc_field(Head(fields))
         IN  IF r = "panic" THEN [err |-> err, panic |-> TRUE]
             ELSE RpcFields(Tail(fields), err \/ r = "error")

----------------------------------------------------------------------------
(* The canonical shape text and its digest. *)

AttrTokens(attr) == <<"#", "[", attr.path>> \o attr.tokens \o <<"]">>

\* quote! { #field.ty }.to_string(): the tokens of the whole field (its
\* attributes, its name and colon when it has one, its type), then `. ty`.
FieldTokens(field) ==
    Concat([i \in DOMAIN field.attrs |-> AttrTokens(field.attrs[i])])
    \o (IF field.ident = NoIdent THEN <<>> ELSE <<field.ident, ":">>)
    \o field.ty.toks \o <<".", "ty">>

\* field_type.split(":").last(): what follows the last ':' of the text.
RECURSIVE SplitColonLast(_)
SplitColonLast(text) ==
    IF \E i \in DOMAIN text : text[i] \in {":", "::"}
    THEN SplitColonLast(Tail(text))
    ELSE text

Unskipped(fields) == SelectSeq(fields, LAMBDA f : ~should_skip_field(f))

\* The fields the struct loop walks: those of Fields::Named only.
StructFields(item) == IF item.named THEN item.fields ELSE <<>>

StructFieldLineMut(field) == <<"field: ">> \o FieldTokens(field) \o <<"\n">>
StructFieldLine(field) == <<"field: ">> \o SplitColonLast(FieldTokens(field)) \o <<"\n">>

EnumFieldLine(field) == <<"field:">> \o FieldTokens(field) \o <<"\n">>

StructText(item) ==
    LET fs == Unskipped(StructFields(item))
    IN  <<"struct_name:", item.ident, "\n">>
        \o Concat([i \in DOMAIN fs |-> StructFieldLine(fs[i])])

VariantText(variant) ==
    LET fs == Unskipped(variant.fields)
    IN  <<"variant:", variant.ident, "\n">>
        \o Concat([i \in DOMAIN fs |-> EnumFieldLine(fs[i])])

EnumText(item) ==
    <<"enum_name:", item.ident, "\n">>
    \o Concat([i \in DOMAIN item.variants |-> VariantText(item.variants[i])])

\* Sha256 of the text, printed as hex: injective on the text.
Sha256Hex(text) == [sha256 |-> text]

\* All the fields the loops of a declaration walk, in order.
ItemFields(item) ==
    IF item.kind = "struct" THEN StructFields(item)
    ELSE Concat([i \in DOMAIN item.variants |-> item.variants[i].fields])

\* dep_types as the loops extend it (outside src/rpc).
ItemDepTypes(item) ==
    IF item.kind = "type" THEN calc_dep_types(item.ty)
    ELSE LET fs == Unskipped(ItemFields(item))
         IN  Concat([i \in DOMAIN fs |-> calc_dep_types(fs[i].ty)])

ItemDigest(item) ==
    Sha256Hex(IF item.kind = "struct" THEN StructText(item) ELSE EnumText(item))

----------------------------------------------------------------------------
(* add_type_deps. *)

RECURSIVE Insert(_, _)
Insert(x, s) ==
    IF s = <<>> THEN <<x>>
    ELSE IF Rank(x) < Rank(Head(s)) THEN <<x>> \o s
    ELSE <<Head(s)>> \o Insert(x, Tail(s))

RECURSIVE Sort(_)
Sort(s) == IF s = <<>> THEN <<>> ELSE Insert(Head(s), Sort(Tail(s)))

\* Vec::dedup: consecutive repetitions removed.
RECURSIVE Dedup(_)
Dedup(s) ==
    IF Len(s) < 2 THEN s
    ELSE IF s[1] = s[2] THEN Dedup(Tail(s))
    ELSE <<Head(s)>> \o Dedup(Tail(s))

Get(m, k, default) == IF k \in DOMAIN m THEN m[k] ELSE default

add_type_deps(deps_map, type_name, dep_types) ==
    LET deps == Dedup(Sort(dep_types))
    IN  IF deps # <<>>
        THEN Put(deps_map, type_name, Get(deps_map, type_name, <<>>) \o deps)
        ELSE deps_map

----------------------------------------------------------------------------
(* One declaration visit: visit_item / inner_visit_item_struct /           *)
(* inner_visit_item_enum, with in_rpc as visit_source_file set it for the  *)
(* file of the declaration.                                                *)

LogEntry(item, in_rpc, panic) ==
    [item |-> item, in_rpc |-> in_rpc, panic |-> panic,
     err_before |-> has_error, err_after |-> has_error',
     finger |-> Get(type_fingerprint', item.ident, NoFinger)]

Remember(item, in_rpc, panic) ==
    log' = (IF Len(log) < 2 THEN log ELSE Tail(log))
           \o <<LogEntry(item, in_rpc, panic)>>

Declare(item, in_rpc) ==
    declared_deps' =
        IF in_rpc THEN declared_deps
        ELSE Put(declared_deps, item.ident,
                 Get(declared_deps, item.ident, {}) \cup Range(ItemDepTypes(item)))

VisitRpc(item) ==
    LET r == RpcFields(ItemFields(item), has_error)
    IN  /\ has_error' = r.err
        /\ pc' = IF r.panic THEN "done" ELSE pc
        /\ exit_status' = IF r.panic THEN "panic" ELSE exit_status
        /\ UNCHANGED <<type_fingerprint, type_deps, store_types>>
        /\ Remember(item, TRUE, r.panic)

VisitStore(item) ==
    /\ type_fingerprint' = Put(type_fingerprint, item.ident, ItemDigest(item))
    /\ type_deps' = add_type_deps(type_deps, item.ident, ItemDepTypes(item))
    /\ store_types' = IF item.kind = "enum" /\ item.ident = "KeyValue"
                      THEN ItemDepTypes(item) ELSE store_types
    /\ UNCHANGED <<has_error, pc, exit_status>>
    /\ Remember(item, FALSE, FALSE)

VisitAlias(item, in_rpc) ==
    /\ type_deps' = add_type_deps(type_deps, item.ident, ItemDepTypes(item))
    /\ UNCHANGED <<type_fingerprint, store_types, has_error, pc, exit_status>>
    /\ Remember(item, in_rpc, FALSE)

Visit(item, in_rpc) ==
    /\ pc = "scan"
    /\ IF item.kind = "type" THEN VisitAlias(item, in_rpc)
       ELSE IF in_rpc THEN VisitRpc(item)
       ELSE VisitStore(item)
    /\ Declare(item, in_rpc)
    /\ nvisits' = nvisits + 1
    /\ UNCHANGED <<baseline, update, old_finger, todo, failed, baseline0>>
    /\ UNCHANGED closureVars
    /\ UNCHANGED chainVars

----------------------------------------------------------------------------
(* report_and_dump, up to construct_finger_print. *)

\* A recursion deeper than this has called itself again for a name that is
\* still being expanded (every frame below the top has an entry in
\* type_deps), so it never returns: the process ends when its stack or its
\* memory is used up.
StackLimit == Cardinality(DOMAIN type_deps) + 1

Exhaust ==
    /\ pc' = "done"
    /\ exit_status' = "exhausted"

ReportRpcError ==
    /\ pc = "scan"
    /\ has_error
    /\ \E u \in BOOLEAN : update' = u
    /\ pc' = "done"
    /\ exit_status' = "fail"
    /\ log' = <<>>
    /\ UNCHANGED <<type_fingerprint, type_deps, store_types, has_error,
                   declared_deps, nvisits, baseline, old_finger, todo, failed,
                   baseline0>>
    /\ UNCHANGED closureVars
    /\ UNCHANGED chainVars

ReportStart ==
    /\ pc = "scan"
    /\ ~has_error
    /\ \E u \in BOOLEAN : update' = u
    /\ old_finger' = baseline
    /\ new_finger' = EmptyMap
    /\ visited' = {}
    /\ root_idx' = 1
    /\ pc' = "closure"
    /\ log' = <<>>
    /\ UNCHANGED <<type_fingerprint, type_deps, store_types, has_error,
                   declared_deps, nvisits, baseline, todo, failed, exit_status,
                   cstack, expanded, baseline0>>
    /\ UNCHANGED chainVars

----------------------------------------------------------------------------
(* construct_finger_print / collect_fingerprints. A frame of cstack is a   *)
(* running call: its type_name and the position of its loop over deps_vec. *)

AlreadyVisitedMut(name) == FALSE
AlreadyVisited(name) == name \in visited

CollectDepsMut(name) ==
    IF name \in DOMAIN type_fingerprint THEN Get(type_deps, name, <<>>) ELSE <<>>
CollectDeps(name) == Get(type_deps, name, <<>>)

\* A call collect_fingerprints(name, ..) made with `stack` as the callers.
CollectCall(name, stack) ==
    IF AlreadyVisited(name)
    THEN /\ cstack' = stack
         /\ UNCHANGED <<new_finger, visited, expanded, pc, exit_status>>
    ELSE IF Len(stack) >= StackLimit
    THEN /\ Exhaust
         /\ cstack' = stack
         /\ UNCHANGED <<new_finger, visited, expanded>>
    ELSE /\ new_finger' = IF name \in DOMAIN type_fingerprint
                          THEN Put(new_finger, name, type_fingerprint[name])
                          ELSE new_finger
         /\ visited' = visited \cup {name}
         /\ expanded' = Put(expanded, name, Get(expanded, name, 0) + 1)
         /\ cstack' = Append(stack, [name |-> name, i |-> 1])
         /\ UNCHANGED <<pc, exit_status>>

Advance(stack) ==
    [stack EXCEPT ![Len(stack)] = [@ EXCEPT !.i = @ + 1]]

Pop(stack) == SubSeq(stack, 1, Len(stack) - 1)

ClosureRoot ==
    /\ pc = "closure"
    /\ cstack = <<>>
    /\ root_idx <= Len(store_types)
    /\ root_idx' = root_idx + 1
    /\ CollectCall(store_types[root_idx], <<>>)
    /\ UNCHANGED <<baseline, update, old_finger, todo, failed, baseline0>>
    /\ UNCHANGED scanVars
    /\ UNCHANGED chainVars

ClosureStep ==
    /\ pc = "closure"
    /\ cstack # <<>>
    /\ LET top == Last(cstack)
           deps_vec == CollectDeps(top.name)
       IN  IF top.i > Len(deps_vec)
           THEN /\ cstack' = Pop(cstack)
                /\ UNCHANGED <<new_finger, visited, expanded, pc, exit_status>>
           ELSE CollectCall(deps_vec[top.i], Advance(cstack))
    /\ UNCHANGED <<root_idx, baseline, update, old_finger, todo, failed, baseline0>>
    /\ UNCHANGED scanVars
    /\ UNCHANGED chainVars

ClosureDone ==
    /\ pc = "closure"
    /\ cstack = <<>>
    /\ root_idx > Len(store_types)
    /\ failed' = FALSE
    /\ todo' = IF update THEN {} ELSE DOMAIN old_finger
    /\ pc' = "diff"
    /\ UNCHANGED <<baseline, update, old_finger, exit_status, baseline0>>
    /\ UNCHANGED scanVars
    /\ UNCHANGED closureVars
    /\ UNCHANGED chainVars

----------------------------------------------------------------------------
(* The comparison loop of report_and_dump. old_finger is a HashMap: its    *)
(* iteration order is any order.                                           *)

Drifted(name) ==
    /\ name \in DOMAIN new_finger
    /\ old_finger[name] # new_finger[name]

DiffSame ==
    /\ pc = "diff"
    /\ \E name \in todo :
        /\ ~Drifted(name)
        /\ todo' = todo \ {name}
    /\ UNCHANGED <<baseline, update, old_finger, failed, exit_status, pc, baseline0>>
    /\ UNCHANGED scanVars
    /\ UNCHANGED closureVars
    /\ UNCHANGED chainVars

DiffDrift ==
    /\ pc = "diff"
    /\ \E name \in todo :
        /\ Drifted(name)
        /\ target' = name
    /\ result' = <<>>
    /\ fstack' = <<>>
    /\ root_idx' = 1
    /\ pc' = "chain"
    /\ UNCHANGED <<baseline, update, old_finger, todo, failed, exit_status, baseline0,
                   new_finger, visited, cstack, expanded>>
    /\ UNCHANGED scanVars

----------------------------------------------------------------------------
(* try_find_type_chain / recurisve_find_type. A frame of fstack is a       *)
(* running call: its type_name, the position of its loop over deps_vec and *)
(* its current_chain after the push.                                       *)

FoundChainMut(current_chain, type_name) == current_chain
FoundChain(current_chain, type_name) == Append(current_chain, type_name)

FindDepsMut(type_name, current_chain) ==
    SelectSeq(Get(type_deps, type_name, <<>>), LAMBDA d : d \notin Range(current_chain))
FindDeps(type_name, current_chain) == Get(type_deps, type_name, <<>>)

\* A call recurisve_find_type(target, name, chain, result) made with `stack`
\* as the callers.
FindCall(name, chain, stack) ==
    IF target = name
    THEN /\ result' = Append(result, FoundChain(chain, name))
         /\ fstack' = stack
         /\ UNCHANGED <<pc, exit_status>>
    ELSE IF Len(stack) >= StackLimit
    THEN /\ Exhaust
         /\ fstack' = stack
         /\ UNCHANGED result
    ELSE /\ fstack' = Append(stack, [name |-> name, i |-> 1,
                                     chain |-> Append(chain, name)])
         /\ UNCHANGED <<result, pc, exit_status>>

ChainRoot ==
    /\ pc = "chain"
    /\ fstack = <<>>
    /\ root_idx <= Len(store_types)
    /\ root_idx' = root_idx + 1
    /\ FindCall(store_types[root_idx], <<>>, <<>>)
    /\ UNCHANGED <<target, baseline, update, old_finger, todo, failed, baseline0,
                   new_finger, visited, cstack, expanded>>
    /\ UNCHANGED scanVars

ChainStep ==
    /\ pc = "chain"
    /\ fstack # <<>>
    /\ LET top == Last(fstack)
           deps_vec == FindDeps(top.name, top.chain)
       IN  IF top.i > Len(deps_vec)
           THEN /\ fstack' = Pop(fstack)
                /\ UNCHANGED <<result, pc, exit_status>>
           ELSE FindCall(deps_vec[top.i], top.chain, Advance(fstack))
    /\ UNCHANGED <<target, baseline, update, old_finger, todo, failed, baseline0>>
    /\ UNCHANGED scanVars
    /\ UNCHANGED closureVars

\* try_find_type_chain returns; the chains are printed and failed is set.
ChainDone ==
    /\ pc = "chain"
    /\ fstack = <<>>
    /\ root_idx > Len(store_types)
    /\ failed' = TRUE
    /\ todo' = todo \ {target}
    /\ pc' = "diff"
    /\ UNCHANGED <<baseline, update, old_finger, exit_status, baseline0>>
    /\ UNCHANGED scanVars
    /\ UNCHANGED closureVars
    /\ UNCHANGED chainVars

----------------------------------------------------------------------------
(* The end of report_and_dump. *)

\* serde_json::to_string_pretty(&new_finger) written over the output file,
\* as serde_json::from_str reads it back: the same keys and digests.
DumpBaselineMut(old, new) ==
    [x \in (DOMAIN old) \cup (DOMAIN new) |-> IF x \in DOMAIN new THEN new[x] ELSE old[x]]
DumpBaseline(old, new) == [x \in DOMAIN new |-> new[x]]

Finish ==
    /\ pc = "diff"
    /\ todo = {}
    /\ pc' = "done"
    /\ exit_status' = IF failed THEN "fail" ELSE "ok"
    /\ baseline' = IF failed THEN baseline ELSE DumpBaseline(baseline, new_finger)
    /\ UNCHANGED <<update, old_finger, todo, failed, baseline0>>
    /\ UNCHANGED scanVars
    /\ UNCHANGED closureVars
    /\ UNCHANGED chainVars

----------------------------------------------------------------------------
(* The source trees and baselines the model runs on. *)

Plain(ident, toks) == Field(ident, PathTy(toks), <<>>)

Payload(variant, type_name) == Variant(variant, <<Plain(NoIdent, <<type_name>>)>>)

KeyValueA == ItemEnum("KeyValue", <<Payload("Acc", "A")>>)
KeyValueAB == ItemEnum("KeyValue", <<Payload("Acc", "A"), Payload("Other", "B")>>)
KeyValueX == ItemEnum("KeyValue", <<Payload("Al", "X")>>)
StructA32 == ItemStruct("A", TRUE, <<Plain("balance", <<"u32">>)>>)
StructA64 == ItemStruct("A", TRUE, <<Plain("balance", <<"u64">>)>>)
StructAB == ItemStruct("A", TRUE, <<Plain("next", <<"B">>)>>)
StructBA == ItemStruct("B", TRUE, <<Plain("back", <<"A">>)>>)
StructBB == ItemStruct("B", TRUE, <<Plain("prev", <<"Option", "<", "B", ">">>)>>)
AliasXB == ItemType("X", PathTy(<<"B">>))
StructP64 == ItemStruct("P", TRUE, <<Plain("amount", <<"u64">>)>>)
StructPRaw == ItemStruct("P", TRUE, <<Field("raw", OtherTy(<<"[u8 ; 32]">>), <<>>)>>)

StoreItems == {KeyValueA, KeyValueAB, KeyValueX, StructA32, StructA64, StructAB,
               StructBA, StructBB, AliasXB}
RpcItems == {StructP64, StructPRaw}

Baselines ==
    { EmptyMap,
      Put(EmptyMap, "A", ItemDigest(StructA32)),
      Put(Put(EmptyMap, "A", ItemDigest(StructA64)), "B", ItemDigest(StructBA)),
      Put(Put(EmptyMap, "B", ItemDigest(StructBB)), "P", ItemDigest(StructP64)) }

SeqsUpTo(S, n) == UNION {[1..k -> S] : k \in 0..n}

SerdeSkip == Attr("serde", <<"(", "skip", ")">>)
SerdeAs(value) == Attr("serde_as", <<"(", "as", "=", "\"">> \o value \o <<"\"", ")">>)

\* Declarations outside src/rpc over a small pool of fields.
ShapeFields ==
    { Plain("a", <<"u32">>), Plain("b", <<"u32">>), Plain("a", <<"u64">>),
      Field("c", PathTy(<<"u32">>), <<SerdeSkip>>) }
TupleFields == { Plain(NoIdent, <<"u32">>), Plain(NoIdent, <<"u64">>) }

ShapeItems ==
    {ItemStruct("P", TRUE, fs) : fs \in SeqsUpTo(ShapeFields, MaxFields)}
    \cup {ItemStruct("P", FALSE, fs) : fs \in SeqsUpTo(TupleFields, MaxFields)}
    \cup {ItemEnum("P", <<Variant("V", fs)>>) :
            fs \in SeqsUpTo(ShapeFields \cup {Plain(NoIdent, <<"u32">>)}, MaxFields)}

\* Declarations under src/rpc over a small pool of fields.
WireFields ==
    { Plain("amount", <<"u64">>),
      Field("amount", PathTy(<<"u64">>), <<SerdeAs(<<"U64", "Hex">>)>>),
      Field("limit", PathTy(<<"Option", "<", "u64", ">">>),
            <<SerdeAs(<<"Option", "<", "U64", "Hex", ">">>)>>),
      Plain("limit", <<"Option", "<", "u64", ">">>),
      Plain("data", <<"Vec", "<", "u8", ">">>),
      Field("raw", OtherTy(<<"[u8 ; 32]">>), <<>>),
      Plain("name", <<"String">>),
      Plain("map", <<"HashMap", "<", "String", ",", "u64", ">">>),
      Field("cache", PathTy(<<"u64">>), <<SerdeSkip>>) }
WirePayloads ==
    { Plain(NoIdent, <<"u64">>),
      Field(NoIdent, PathTy(<<"u64">>), <<SerdeAs(<<"U64", "Hex">>)>>),
      Plain(NoIdent, <<"String">>) }

WireItems ==
    {ItemStruct("P", TRUE, fs) : fs \in SeqsUpTo(WireFields, MaxFields)}
    \cup {ItemEnum("P", <<Variant("V", fs)>>) : fs \in SeqsUpTo(WirePayloads, MaxFields)}

----------------------------------------------------------------------------
(* The specifications. *)

Init ==
    /\ type_fingerprint = EmptyMap
    /\ type_deps = EmptyMap
    /\ store_types = <<>>
    /\ has_error = FALSE
    /\ baseline \in Baselines
    /\ baseline0 = baseline
    /\ update = FALSE
    /\ old_finger = EmptyMap
    /\ new_finger = EmptyMap
    /\ visited = {}
    /\ root_idx = 1
    /\ cstack = <<>>
    /\ todo = {}
    /\ failed = FALSE
    /\ target = NoName
    /\ result = <<>>
    /\ fstack = <<>>
    /\ exit_status = "running"
    /\ pc = "scan"
    /\ log = <<>>
    /\ expanded = EmptyMap
    /\ declared_deps = EmptyMap
    /\ nvisits = 0

VisitStoreItem ==
    /\ nvisits < MaxVisits
    /\ \E item \in StoreItems : Visit(item, FALSE)

VisitRpcItem ==
    /\ nvisits < MaxVisits
    /\ \E item \in RpcItems : Visit(item, TRUE)

Next ==
    \/ VisitStoreItem
    \/ VisitRpcItem
    \/ ReportRpcError
    \/ ReportStart
    \/ ClosureRoot
    \/ ClosureStep
    \/ ClosureDone
    \/ DiffSame
    \/ DiffDrift
    \/ ChainRoot
    \/ ChainStep
    \/ ChainDone
    \/ Finish

Spec == Init /\ [][Next]_vars

\* The run is one sequential program: a call that can take a step takes it.
FairSpec ==
    /\ Spec
    /\ WF_vars(ClosureRoot \/ ClosureStep \/ ClosureDone)
    /\ WF_vars(ChainRoot \/ ChainStep \/ ChainDone)

\* A declaration outside src/rpc, then an edited version of it.
VisitShapeItem ==
    /\ Len(log) < 2
    /\ \E item \in ShapeItems : Visit(item, FALSE)

InitScan == Init /\ baseline = EmptyMap

ShapeSpec == InitScan /\ [][VisitShapeItem]_vars

\* Declarations under src/rpc.
VisitWireItem ==
    /\ Len(log) < 2
    /\ \E item \in WireItems : Visit(item, TRUE)

WireSpec == InitScan /\ [][VisitWireItem]_vars

----------------------------------------------------------------------------
(* The dependency graph, stated without the traversals. *)

Roots == Range(store_types)

Succs(n) == Range(Get(type_deps, n, <<>>))

RECURSIVE ReachFrom(_)
ReachFrom(S) ==
    LET N == S \cup UNION {Succs(n) : n \in S}
    IN  IF N = S THEN S ELSE ReachFrom(N)

\* A cycle of the graph can be reached from a root.
PlainLoop == \E n \in ReachFrom(Roots) : n \in ReachFrom(Succs(n))

\* The same, on walks that stop at `target`.
SuccsAvoid(n) == IF n = target THEN {} ELSE Succs(n)

RECURSIVE ReachAvoid(_)
ReachAvoid(S) ==
    LET N == S \cup UNION {SuccsAvoid(n) : n \in S}
    IN  IF N = S THEN S ELSE ReachAvoid(N)

LoopAvoid == \E n \in ReachAvoid(Roots) : n \in ReachAvoid(SuccsAvoid(n))

\* The walks from n to `target` of at most k edges that meet `target` only
\* at their end.
RECURSIVE PathsFrom(_, _)
PathsFrom(n, k) ==
    IF n = target THEN {<<n>>}
    ELSE IF k = 0 THEN {}
    ELSE UNION {{<<n>> \o p : p \in PathsFrom(d, k - 1)} : d \in Succs(n)}

RootPaths == UNION {PathsFrom(r, Cardinality(DOMAIN type_deps) + 1) : r \in Roots}

ClosureReturned == pc \in {"diff", "chain"}

ChainReturned == target # NoName /\ pc # "chain" /\ exit_status # "exhausted"

----------------------------------------------------------------------------
(* C1 *)

\* C1: once construct_finger_print has returned, the keys of the closure map
\* are exactly the fingerprinted names reachable from a member of
\* store_types along dependency edges (through names with or without a
\* fingerprint), each with its current fingerprint.
ThmC1 ==
    ClosureReturned =>
        /\ DOMAIN new_finger = (DOMAIN type_fingerprint) \cap ReachFrom(Roots)
        /\ \A n \in DOMAIN new_finger : new_finger[n] = type_fingerprint[n]

\* A closure that reached a fingerprinted name through a root that has no
\* fingerprint, and left a fingerprinted name out.
WitC1 ==
    /\ ClosureReturned
    /\ \E r \in Roots : r \notin DOMAIN type_fingerprint /\ Succs(r) # {}
    /\ DOMAIN new_finger # {}
    /\ (DOMAIN type_fingerprint) \ (DOMAIN new_finger) # {}

----------------------------------------------------------------------------
(* C2, C3, C4 *)

\* Some name of the old baseline has another digest in the new closure map.
DriftExists ==
    \E n \in (DOMAIN baseline0) \cap (DOMAIN new_finger) : baseline0[n] # new_finger[n]

ReportEnded == pc = "done" /\ exit_status # "panic"

\* C2: a run of report_and_dump with update = false and has_error clear
\* ends with status 1 exactly when some name is in both the old baseline and
\* the new closure map with different digests.
CexC2 ==
    (ReportEnded /\ ~update /\ ~has_error) =>
        (exit_status = "fail" <=> DriftExists)

\* The same, for the runs in which every try_find_type_chain returned.
C2WhenChainsReturn ==
    (ReportEnded /\ ~update /\ ~has_error /\ exit_status # "exhausted") =>
        (exit_status = "fail" <=> DriftExists)

\* C3: a run in which a declaration set has_error ends with status 1, the
\* baseline neither read nor compared nor written, whatever update is.
CexC3 ==
    (pc = "done" /\ has_error) =>
        /\ exit_status = "fail"
        /\ baseline = baseline0
        /\ old_finger = EmptyMap
        /\ new_finger = EmptyMap

\* The same, for the runs that reached report_and_dump.
C3AtReport ==
    (ReportEnded /\ has_error) =>
        /\ exit_status = "fail"
        /\ baseline = baseline0
        /\ old_finger = EmptyMap
        /\ new_finger = EmptyMap

\* C4: after report_and_dump, status 0 means the output file holds exactly
\* the new closure map (old entries outside it are gone), and status 1 means
\* it holds what it held before the run; with update = true and has_error
\* clear the status is 0.
ThmC4 ==
    ReportEnded =>
        /\ exit_status = "ok" =>
              /\ baseline = new_finger
              /\ DOMAIN baseline = (DOMAIN type_fingerprint) \cap ReachFrom(Roots)
        /\ exit_status = "fail" => baseline = baseline0
        /\ (update /\ ~has_error) => exit_status = "ok"

\* A forced update over a drifted entry that also drops an old entry.
WitC4 ==
    /\ ReportEnded
    /\ exit_status = "ok"
    /\ update
    /\ DriftExists
    /\ (DOMAIN baseline0) \ (DOMAIN baseline) # {}

----------------------------------------------------------------------------
(* C5 *)

\* C5: the chains try_find_type_chain returns for a drifted member of
\* store_types include one that starts at the marker type's name
\* (KeyValue) and ends at the drifted type.
CexC5 ==
    (ChainReturned /\ target \in Roots) =>
        \E i \in DOMAIN result :
            /\ result[i][1] = "KeyValue"
            /\ Last(result[i]) = target

\* C5, amended: the returned chains include the chain that is the drifted
\* member of store_types alone, and every returned chain starts at a member
\* of store_types and ends at the drifted type.
ThmC5 ==
    (ChainReturned /\ target \in Roots) =>
        /\ <<target>> \in Range(result)
        /\ \A i \in DOMAIN result :
            /\ result[i][1] \in Roots
            /\ Last(result[i]) = target

\* A returned search for a drifted direct payload of KeyValue.
WitC5 ==
    /\ ChainReturned
    /\ target \in Roots
    /\ "KeyValue" \in DOMAIN type_fingerprint
    /\ Len(result) >= 2

----------------------------------------------------------------------------
(* C6 *)

Without(fs, k) == SubSeq(fs, 1, k - 1) \o SubSeq(fs, k + 1, Len(fs))

\* gs is fs with one field that is not skip-marked added.
FieldAdded(fs, gs) ==
    /\ Len(gs) = Len(fs) + 1
    /\ \E k \in DOMAIN gs : ~should_skip_field(gs[k]) /\ Without(gs, k) = fs

\* gs is fs with one named field that is not skip-marked renamed, its type
\* and attributes kept.
FieldRenamed(fs, gs) ==
    /\ Len(gs) = Len(fs)
    /\ \E k \in DOMAIN fs :
        /\ ~should_skip_field(fs[k])
        /\ fs[k].ident # NoIdent /\ gs[k].ident # NoIdent
        /\ fs[k].ident # gs[k].ident
        /\ gs[k] = [fs[k] EXCEPT !.ident = gs[k].ident]
        /\ \A j \in DOMAIN fs : j # k => gs[j] = fs[j]

\* Two visits of a record (a struct with named fields) or of a sum type
\* outside src/rpc, one after the other, under the same name.
ShapePair ==
    /\ Len(log) = 2
    /\ ~log[1].in_rpc /\ ~log[2].in_rpc
    /\ log[1].item.kind = log[2].item.kind
    /\ log[1].item.ident = log[2].item.ident
    /\ log[1].item.named = log[2].item.named
    /\ \/ log[1].item.kind = "struct" /\ log[1].item.named
       \/ /\ log[1].item.kind = "enum"
          /\ Len(log[1].item.variants) = 1 /\ Len(log[2].item.variants) = 1
          /\ log[1].item.variants[1].ident = log[2].item.variants[1].ident

Before == ItemFields(log[1].item)
After == ItemFields(log[2].item)

\* C6: adding, removing or renaming a field that is not skip-marked changes
\* the digest of a record or sum declaration outside src/rpc.
CexC6 ==
    (ShapePair /\ (\/ FieldAdded(Before, After)
                   \/ FieldAdded(After, Before)
                   \/ FieldRenamed(Before, After)))
        => log[1].finger # log[2].finger

\* C6, amended: adding or removing a field that is not skip-marked changes
\* the digest, and so does renaming a named payload field of a sum type's
\* variant; renaming a field of a record, its type kept, leaves the record's
\* digest as it was.
ThmC6 ==
    ShapePair =>
        /\ (FieldAdded(Before, After) \/ FieldAdded(After, Before))
              => log[1].finger # log[2].finger
        /\ (FieldRenamed(Before, After) /\ log[1].item.kind = "enum")
              => log[1].finger # log[2].finger
        /\ (FieldRenamed(Before, After) /\ log[1].item.kind = "struct")
              => log[1].finger = log[2].finger

\* A record visited again with one field renamed.
WitC6 ==
    /\ ShapePair
    /\ log[1].item.kind = "struct"
    /\ FieldRenamed(Before, After)
    /\ log[2].finger = type_fingerprint[log[2].item.ident]

----------------------------------------------------------------------------
(* C7 *)

\* The fields the annotation check is for: one identifier, or two with
\* Option outside, the innermost an unsigned integer kind.
InScope(field) ==
    LET ids == calc_dep_types(field.ty)
    IN  /\ Len(ids) = 1 \/ (Len(ids) = 2 /\ ids[1] = "Option")
        /\ Last(ids) \in UIntKinds

\* C7: under src/rpc a declaration whose fields are all skip-marked or out
\* of scope produces no diagnostic, does not set has_error and does not
\* abort the scan.
CexC7 ==
    \A i \in DOMAIN log :
        (/\ log[i].in_rpc
         /\ \A k \in DOMAIN ItemFields(log[i].item) :
               LET f == ItemFields(log[i].item)[k]
               IN  should_skip_field(f) \/ ~InScope(f))
        => (~log[i].panic /\ log[i].err_after = log[i].err_before)

----------------------------------------------------------------------------
(* C8 *)

\* C8: collect_fingerprints expands each name at most once over all the
\* roots, and construct_finger_print returns on every graph, cyclic or not.
ThmC8 ==
    /\ [](\A n \in DOMAIN expanded : expanded[n] <= 1)
    /\ [](pc = "closure" => <>(pc = "diff"))

\* A closure that has returned on a graph with a cycle reachable from a root.
WitC8 ==
    /\ pc = "diff"
    /\ PlainLoop
    /\ \E n \in DOMAIN expanded : n \in ReachFrom(Succs(n))

----------------------------------------------------------------------------
(* C9 *)

ChainExhausted == target # NoName /\ exit_status = "exhausted"

\* C9: try_find_type_chain does not return when a cycle of the dependency
\* graph can be reached from a member of store_types, and returns every
\* root-to-target path when none can.
CexC9 ==
    /\ ChainReturned => (~PlainLoop /\ Range(result) = RootPaths)
    /\ ChainExhausted => PlainLoop

\* C9, amended: try_find_type_chain does not return exactly when a cycle
\* can be reached from a member of store_types on a walk that does not pass
\* through the target (the recursion stops at the target, so a cycle through
\* it is never followed); otherwise it returns every root-to-target path.
ThmC9 ==
    /\ [](ChainReturned => (~LoopAvoid /\ Range(result) = RootPaths))
    /\ [](ChainExhausted => LoopAvoid)
    /\ []((pc = "chain" /\ ~LoopAvoid) => <>(pc = "diff"))

\* A search that returned although a cycle can be reached from a root.
WitC9 ==
    /\ ChainReturned
    /\ PlainLoop
    /\ result # <<>>

----------------------------------------------------------------------------
(* C10 *)

IsSorted(s) == \A i, j \in DOMAIN s : i < j => Rank(s[i]) <= Rank(s[j])

NoDuplicates(s) == \A i, j \in DOMAIN s : i # j => s[i] # s[j]

\* C10: after any visits the list recorded for a name is sorted, has no
\* duplicates, and holds exactly the dependency identifiers of the
\* declarations of that name outside src/rpc.
CexC10 ==
    \A n \in DOMAIN type_deps :
        /\ IsSorted(type_deps[n])
        /\ NoDuplicates(type_deps[n])
        /\ Range(type_deps[n]) = Get(declared_deps, n, {})

====
